---- MODULE Spec2Model ----
(***************************************************************************)
(* DynamiXplore: the Python facade (dynamixplore/simulation.py and         *)
(* dynamixplore/analysis.py) over the native core.                         *)
(*                                                                         *)
(* Numbers are integers: times and coordinates are counted in a fixed      *)
(* unit, tolerances in units of 1e-6.  Python values that may have the     *)
(* wrong type are records carrying the type information the code tests.    *)
(* The native core (rust_core / dx_rust) is not part of the Python         *)
(* sources; its operators follow sections 4.2-4.8 of the specification.    *)
(***************************************************************************)
EXTENDS Integers, Sequences, FiniteSets, TLC

VARIABLES sim, ana, op, core

vars == <<sim, ana, op, core>>

(***************************************************************************)
(* Bounds of the model.                                                    *)
(***************************************************************************)
MaxTime == 3

MaxPoints == 2

MaxSeries == 3

(***************************************************************************)
(* Python values.                                                          *)
(***************************************************************************)
Absent == "<absent>"

NoObj == [kind |-> "None"]

NoExc == [type |-> "None", msg |-> ""]

Exc(type, msg) == [type |-> type, msg |-> msg]

\* dict.get(key, default) on a dictionary kept as a set of <<key, value>> pairs
DictGet(items, key, default) ==
    IF \E p \in items : p[1] = key
    THEN (CHOOSE p \in items : p[1] = key)[2]
    ELSE default

\* keyword names of a call that the callee's signature does not declare
UnexpectedKeywords(names, params) == names \ params

(***************************************************************************)
(* The dynamics callbacks a caller may pass.  "const" is f(t, y) = 1 in    *)
(* every component, "raises" raises on its first invocation, "smooth" and  *)
(* "rough" are fields told apart by the local error of a step, and         *)
(* "not_callable" is a value that is not a function.                       *)
(***************************************************************************)
DynamicsFuncs == {"const", "raises", "smooth", "rough"}

callable(f) == f \in DynamicsFuncs

(***************************************************************************)
(* Simulation.__init__                                                     *)
(***************************************************************************)
DefaultTol == 1

\* np.asarray(initial_state, dtype=np.float64): keeps the nesting depth
asarray(initial_state) == initial_state

Simulation_init(dynamics_func, initial_state, t_span, dt, solver_options) ==
    IF ~callable(dynamics_func)
    THEN [raised |-> Exc("TypeError", "The dynamics function must be callable."),
          self |-> NoObj]
    ELSE IF asarray(initial_state).ndim # 1
    THEN [raised |-> Exc("ValueError", "The initial state must be a 1D array."),
          self |-> NoObj]
    ELSE IF ~t_span.isTuple \/ Len(t_span.elems) # 2
    THEN [raised |-> Exc("ValueError", "The time span 't_span' must be a tuple of length 2."),
          self |-> NoObj]
    ELSE IF t_span.elems[2] <= t_span.elems[1]
    THEN [raised |-> Exc("ValueError", "The end time must be greater than the start time."),
          self |-> NoObj]
    ELSE IF ~dt.isNumber \/ dt.val <= 0
    THEN [raised |-> Exc("ValueError", "The time step 'dt' must be a positive number."),
          self |-> NoObj]
    ELSE IF solver_options.type \notin {"None", "dict"}
    THEN [raised |-> Exc("TypeError", "The solver options must be a dictionary."),
          self |-> NoObj]
    ELSE [raised |-> NoExc,
          self |-> [kind |-> "Simulation",
                    dynamics_func |-> dynamics_func,
                    initial_state |-> asarray(initial_state).data,
                    t_span |-> t_span.elems,
                    dt |-> dt.val,
                    \* solver_options or {}
                    solver_options |-> IF solver_options.type = "None"
                                       THEN {} ELSE solver_options.items]]

(***************************************************************************)
(* Arrays.  A NumPy array is [isArray, ndim, shape, data]; a 2D array      *)
(* keeps its rows in data, a 1D array its entries.                         *)
(***************************************************************************)
Array2D(rows, ncols) ==
    [isArray |-> TRUE, ndim |-> 2, shape |-> <<Len(rows), ncols>>, data |-> rows]

Array1D(xs) ==
    [isArray |-> TRUE, ndim |-> 1, shape |-> <<Len(xs)>>, data |-> xs]

NoneArr == [isArray |-> FALSE, ndim |-> 0, shape |-> <<>>, data |-> <<>>]

\* Optional[float]
NoneNum == [some |-> FALSE, val |-> 0]

SomeNum(v) == [some |-> TRUE, val |-> v]

Min(a, b) == IF a <= b THEN a ELSE b

Max(a, b) == IF a >= b THEN a ELSE b

Abs(a) == IF a >= 0 THEN a ELSE -a

(***************************************************************************)
(* The native integrators (specification 4.1-4.4, 6, 7).                   *)
(***************************************************************************)
\* the dynamics callback: f(t, y)
f(dyn, t, y) == [i \in DOMAIN y |-> 1]

\* y + h * k, componentwise
Axpy(y, h, k) == [i \in DOMAIN y |-> y[i] + h * k[i]]

\* 4.2 Euler: y_{k+1} = y_k + h f(t_k, y_k)
EulerStep(dyn, t, y, h) == Axpy(y, h, f(dyn, t, y))

\* 4.2 classical RK4; the stage derivatives of the model's fields are whole
\* numbers and h (k1 + 2 k2 + 2 k3 + k4) is a multiple of 6
RK4Step(dyn, t, y, h) ==
    LET k1 == f(dyn, t, y)
        k2 == f(dyn, t, y)
        k3 == f(dyn, t, y)
        k4 == f(dyn, t + h, Axpy(y, h, k3))
    IN [i \in DOMAIN y |-> y[i] + (h * (k1[i] + 2 * k2[i] + 2 * k3[i] + k4[i])) \div 6]

\* 4.4 implicit Euler: y_{k+1} = y_k + h f(t_{k+1}, y_{k+1}), one Picard
\* iteration from y_k
ImplicitEulerStep(dyn, t, y, h) == Axpy(y, h, f(dyn, t + h, y))

FixedStep(func, dyn, t, y, h) ==
    CASE func = "solve_euler_explicit" -> EulerStep(dyn, t, y, h)
      [] func = "solve_rk4_explicit" -> RK4Step(dyn, t, y, h)
      [] OTHER -> ImplicitEulerStep(dyn, t, y, h)

CeilDiv(a, b) == (a + b - 1) \div b

\* 4.3 step-size controller
GrowthFactor == 5

ShrinkDivisor == 5

MinStep == 1

\* the error estimate of a field whose local error exceeds every tolerance
RoughError == 100

\* 4.3: the embedded pair's local error estimate h * sum((b_i - b*_i) k_i).
\* Both weight rows sum to 1, so it vanishes when all stages agree ("const");
\* the coefficients are left open (9), so the estimate of the other fields is
\* given by their error class: growing with the step ("smooth") or above
\* every tolerance ("rough").
ErrorEstimate(dyn, t, y, h) ==
    CASE dyn = "smooth" -> h * h
      [] dyn = "rough" -> RoughError
      [] OTHER -> 0

\* 4.3: the candidate step of the embedded pair, y + h sum(b_i k_i) with
\* weights that sum to 1 over stages that agree
RK45Step(dyn, t, y, h) == Axpy(y, h, f(dyn, t, y))

\* max-norm of the state
Norm(y) == IF DOMAIN y = {} THEN 0
           ELSE CHOOSE m \in {Abs(y[i]) : i \in DOMAIN y} :
                    \A i \in DOMAIN y : Abs(y[i]) <= m

\* 4.3: abstol + reltol |y|
Tolerance(y, abstol, reltol) == abstol + reltol * Norm(y)

\* the acceptance test with a strict comparison
Accepted_strict(e, y, abstol, reltol) == e < Tolerance(y, abstol, reltol)

\* 4.3: accepted iff |e| <= abstol + reltol |y|
Accepted(e, y, abstol, reltol) == e <= Tolerance(y, abstol, reltol)

\* 4.3: the factor h grows by after an accepted step, derived from the ratio
\* of tolerance to achieved error and clamped to the bounded growth factor
Growth(e, tol) ==
    IF e <= 0 THEN GrowthFactor ELSE Min(GrowthFactor, Max(1, tol \div e))

\* 4.3: the step after a rejection, shrunk by the bounded factor and clamped
\* to the minimum
Shrunk(h) == Max(h \div ShrinkDivisor, MinStep)

(***************************************************************************)
(* One run of a core integrator.  status is "idle", "running", "done" or   *)
(* "failed"; rows and times are the trajectory buffers (3); h is the       *)
(* current step size, rejections the rejections of the step being tried    *)
(* and last what the latest pass of the loop did.                          *)
(***************************************************************************)
IdleCore ==
    [status |-> "idle", func |-> "", dyn |-> "", t_start |-> 0, t_end |-> 0,
     h_init |-> 0, h |-> 0, abstol |-> 0, reltol |-> 0, t |-> 0, y |-> <<>>,
     rows |-> <<>>, times |-> <<>>, rejections |-> 0, last |-> "none",
     exc |-> NoExc, dynamics_invoked |-> FALSE]

CoreRunning(func, dyn, y0, t_start, t_end, h, abstol, reltol) ==
    [status |-> "running", func |-> func, dyn |-> dyn, t_start |-> t_start,
     t_end |-> t_end, h_init |-> h, h |-> h, abstol |-> abstol,
     reltol |-> reltol, t |-> t_start, y |-> y0, rows |-> <<y0>>,
     times |-> <<t_start>>, rejections |-> 0, last |-> "start",
     exc |-> NoExc, dynamics_invoked |-> FALSE]

CoreFailed(c, exc, how) ==
    [c EXCEPT !.status = "failed", !.exc = exc, !.last = how]

Adaptive(c) == c.func = "solve_rk45_adaptive"

\* 4.2 / 4.4: one pass of a fixed-step loop; the final step is clamped to
\* land on t_end
FixedAdvance(c) ==
    LET hs == Min(c.h, c.t_end - c.t)
        ynew == FixedStep(c.func, c.dyn, c.t, c.y, hs)
    IN [c EXCEPT !.t = c.t + hs, !.y = ynew, !.rows = Append(c.rows, ynew),
                 !.times = Append(c.times, c.t + hs), !.last = "step",
                 !.dynamics_invoked = TRUE]

\* the adaptive loop retrying a step rejected at the minimum step size
AdaptiveAdvance_no_underflow(c) ==
    LET hs == Min(c.h, c.t_end - c.t)
        e == ErrorEstimate(c.dyn, c.t, c.y, hs)
        tol == Tolerance(c.y, c.abstol, c.reltol)
        ynew == RK45Step(c.dyn, c.t, c.y, hs)
    IN IF Accepted(e, c.y, c.abstol, c.reltol)
       THEN [c EXCEPT !.t = c.t + hs, !.y = ynew, !.rows = Append(c.rows, ynew),
                      !.times = Append(c.times, c.t + hs),
                      !.h = hs * Growth(e, tol), !.rejections = 0,
                      !.last = "accept", !.dynamics_invoked = TRUE]
       ELSE [c EXCEPT !.h = Shrunk(hs), !.last = "reject",
                      !.dynamics_invoked = TRUE]

\* the adaptive loop without the truncation of the step to t_end
AdaptiveAdvance_untruncated(c) ==
    LET hs == c.h
        e == ErrorEstimate(c.dyn, c.t, c.y, hs)
        tol == Tolerance(c.y, c.abstol, c.reltol)
        ynew == RK45Step(c.dyn, c.t, c.y, hs)
    IN IF Accepted(e, c.y, c.abstol, c.reltol)
       THEN [c EXCEPT !.t = c.t + hs, !.y = ynew, !.rows = Append(c.rows, ynew),
                      !.times = Append(c.times, c.t + hs),
                      !.h = hs * Growth(e, tol), !.rejections = 0,
                      !.last = "accept", !.dynamics_invoked = TRUE]
       ELSE IF hs <= MinStep
       THEN [CoreFailed(c, Exc("RuntimeError", "step size underflow"), "underflow")
                EXCEPT !.h = hs, !.rejections = c.rejections + 1,
                       !.dynamics_invoked = TRUE]
       ELSE [c EXCEPT !.h = Shrunk(hs), !.rejections = c.rejections + 1,
                      !.last = "reject", !.dynamics_invoked = TRUE]

\* 4.3: one pass of the adaptive loop: the step, truncated to land on t_end,
\* is accepted (point appended, time advanced, h grown), rejected (h shrunk,
\* same step retried) or, at the minimum step, ends the run in underflow
AdaptiveAdvance(c) ==
    LET hs == Min(c.h, c.t_end - c.t)
        e == ErrorEstimate(c.dyn, c.t, c.y, hs)
        tol == Tolerance(c.y, c.abstol, c.reltol)
        ynew == RK45Step(c.dyn, c.t, c.y, hs)
    IN IF Accepted(e, c.y, c.abstol, c.reltol)
       THEN [c EXCEPT !.t = c.t + hs, !.y = ynew, !.rows = Append(c.rows, ynew),
                      !.times = Append(c.times, c.t + hs),
                      !.h = hs * Growth(e, tol), !.rejections = 0,
                      !.last = "accept", !.dynamics_invoked = TRUE]
       ELSE IF hs <= MinStep
       THEN [CoreFailed(c, Exc("RuntimeError", "step size underflow"), "underflow")
                EXCEPT !.h = hs, !.rejections = c.rejections + 1,
                       !.dynamics_invoked = TRUE]
       ELSE [c EXCEPT !.h = Shrunk(hs), !.rejections = c.rejections + 1,
                      !.last = "reject", !.dynamics_invoked = TRUE]

\* one pass of the loop of a running integrator; an error of the dynamics
\* aborts the run (4.2)
CoreStep(c) ==
    IF c.t >= c.t_end
    THEN [c EXCEPT !.status = "done", !.last = "finish"]
    ELSE IF c.dyn = "raises"
    THEN [CoreFailed(c, Exc("RuntimeError", "dynamics"), "abort")
             EXCEPT !.dynamics_invoked = TRUE]
    ELSE IF Adaptive(c) THEN AdaptiveAdvance(c)
    ELSE FixedAdvance(c)

RECURSIVE RunCore(_)
RunCore(c) == IF c.status # "running" THEN c ELSE RunCore(CoreStep(c))

CoreOk(trajectory, times) ==
    [raised |-> NoExc, trajectory |-> trajectory, times |-> times,
     dynamics_invoked |-> TRUE]

CoreRaise(exc, invoked) ==
    [raised |-> exc, trajectory |-> NoneArr, times |-> NoneArr,
     dynamics_invoked |-> invoked]

\* 6 / 7: what a finished run hands back: (trajectory, times), or the error
\* and nothing else
CoreResult(c) ==
    IF c.status = "done"
    THEN CoreOk(Array2D(c.rows, Len(c.y)), Array1D(c.times))
    ELSE CoreRaise(c.exc, c.dynamics_invoked)

\* 6: the core may re-validate the run configuration defensively
CoreRevalidated(func, dyn, y0, t_start, t_end, h, abstol, reltol) ==
    CoreFailed(CoreRunning(func, dyn, y0, t_start, t_end, h, abstol, reltol),
               Exc("ValueError", "invalid run configuration"), "refused")

\* 4.2 / 4.4: entry of a fixed-step run
solve_fixed(func, dyn, y0, t_start, t_end, h) ==
    IF h <= 0
    THEN {CoreRevalidated(func, dyn, y0, t_start, t_end, h, 0, 0)}
    ELSE {CoreRunning(func, dyn, y0, t_start, t_end, h, 0, 0)}

\* 4.3 / 6: entry of the adaptive run.  A non-positive tolerance is either
\* rejected on entry (defensive re-validation) or integrated with.
solve_rk45_adaptive(dyn, y0, t_start, t_end, h_init, abstol, reltol) ==
    LET func == "solve_rk45_adaptive"
        refused == CoreRevalidated(func, dyn, y0, t_start, t_end, h_init, abstol, reltol)
        running == CoreRunning(func, dyn, y0, t_start, t_end, h_init, abstol, reltol)
    IN IF h_init <= 0 THEN {refused}
       ELSE IF abstol <= 0 \/ reltol <= 0 THEN {refused, running}
       ELSE {running}

\* 4.4 / 6: no higher-order implicit method; requesting it signals
\* "not implemented"
solve_rk4_implicit(dyn, y0, t_start, t_end, h) ==
    {CoreFailed(CoreRunning("solve_rk4_implicit", dyn, y0, t_start, t_end, h, 0, 0),
                Exc("NotImplementedError", "implicit RK4"), "refused")}

\* the states in which the core can start for one invocation
CoreEntry(inv) ==
    LET a == inv.args
    IN CASE inv.func = "solve_rk45_adaptive" ->
                solve_rk45_adaptive(a[1], a[2], a[3], a[4], a[5],
                                    DictGet(inv.kwargs, "abstol", DefaultTol),
                                    DictGet(inv.kwargs, "reltol", DefaultTol))
         [] inv.func = "solve_rk4_implicit" ->
                solve_rk4_implicit(a[1], a[2], a[3], a[4], a[5])
         [] OTHER -> solve_fixed(inv.func, a[1], a[2], a[3], a[4], a[5])

\* the outcomes the core can produce for one invocation
CoreOutcomes(inv) == {CoreResult(RunCore(c)) : c \in CoreEntry(inv)}

(***************************************************************************)
(* Analysis.__init__                                                       *)
(***************************************************************************)
Analysis_params == {"trajectory", "t", "dt"}

\* self.n_dims, self.n_points = trajectory.shape
Analysis_init_shape_swapped(trajectory, t, dt) ==
    IF ~trajectory.isArray \/ trajectory.ndim # 2
    THEN [raised |-> Exc("ValueError", "Trajectory must be a 2D NumPy array."),
          self |-> NoObj]
    ELSE IF ~t.isArray /\ ~dt.some
    THEN [raised |-> Exc("ValueError", "Time information is required."),
          self |-> NoObj]
    ELSE [raised |-> NoExc,
          self |-> [kind |-> "Analysis",
                    trajectory |-> trajectory,
                    t |-> t,
                    dt |-> dt,
                    n_points |-> trajectory.shape[2],
                    n_dims |-> trajectory.shape[1]]]

Analysis_init(trajectory, t, dt) ==
    IF ~trajectory.isArray \/ trajectory.ndim # 2
    THEN [raised |-> Exc("ValueError", "Trajectory must be a 2D NumPy array."),
          self |-> NoObj]
    ELSE IF ~t.isArray /\ ~dt.some
    THEN [raised |-> Exc("ValueError", "Time information is required."),
          self |-> NoObj]
    ELSE [raised |-> NoExc,
          self |-> [kind |-> "Analysis",
                    trajectory |-> trajectory,
                    t |-> t,
                    dt |-> dt,
                    n_points |-> trajectory.shape[1],
                    n_dims |-> trajectory.shape[2]]]

\* a keyword call Analysis(name=value, ...): the names are bound against the
\* signature before the body runs
Analysis_call(names, trajectory, t, dt) ==
    IF UnexpectedKeywords(names, Analysis_params) # {}
    THEN [raised |-> Exc("TypeError", "__init__() got an unexpected keyword argument"),
          self |-> NoObj]
    ELSE IF "trajectory" \notin names
    THEN [raised |-> Exc("TypeError", "__init__() missing 1 required positional argument"),
          self |-> NoObj]
    ELSE Analysis_init(trajectory,
                       IF "t" \in names THEN t ELSE NoneArr,
                       IF "dt" \in names THEN dt ELSE NoneNum)

(***************************************************************************)
(* Simulation.run                                                          *)
(***************************************************************************)
run_params == {"solver"}

run_default_solver == "RK45"

\* the implicit RK4 key bound to the implicit Euler solver
solver_map_implicit_swapped ==
    [rk45_adaptive |-> "solve_rk45_adaptive",
     rk4_explicit |-> "solve_rk4_explicit",
     euler_explicit |-> "solve_euler_explicit",
     rk4_implicit |-> "solve_euler_implicit",
     euler_implicit |-> "solve_rk4_implicit"]

solver_map ==
    [rk45_adaptive |-> "solve_rk45_adaptive",
     rk4_explicit |-> "solve_rk4_explicit",
     euler_explicit |-> "solve_euler_explicit",
     rk4_implicit |-> "solve_rk4_implicit",
     euler_implicit |-> "solve_euler_implicit"]

\* the start time replaced by 0
common_args_from_zero(self) ==
    <<self.dynamics_func, self.initial_state, 0, self.t_span[2], self.dt>>

\* the length of the span passed where the end time belongs
common_args_span_length(self) ==
    <<self.dynamics_func, self.initial_state, self.t_span[1],
      self.t_span[2] - self.t_span[1], self.dt>>

common_args(self) ==
    <<self.dynamics_func, self.initial_state, self.t_span[1], self.t_span[2], self.dt>>

\* the call run makes into the core for a solver of solver_map
run_invocation(self, solver) ==
    [func |-> solver_map[solver],
     args |-> common_args(self),
     kwargs |-> IF solver = "rk45_adaptive"
                THEN {<<"abstol", DictGet(self.solver_options, "abstol", DefaultTol)>>,
                      <<"reltol", DictGet(self.solver_options, "reltol", DefaultTol)>>}
                ELSE {}]

NoCoreResult == CoreRaise(NoExc, FALSE)

RunRaise(exc, calls, res) ==
    [returned |-> NoObj, raised |-> exc, core_calls |-> calls, core_result |-> res,
     dynamics_invoked |-> res.dynamics_invoked]

\* run with the core call wrapped in "except Exception: return None"
run_wrap_swallow(inv, res) ==
    IF res.raised # NoExc
    THEN [returned |-> NoObj, raised |-> NoExc, core_calls |-> <<inv>>,
          core_result |-> res, dynamics_invoked |-> res.dynamics_invoked]
    ELSE LET a == Analysis_call({"trajectory", "times"}, res.trajectory, NoneArr, NoneNum)
         IN [returned |-> a.self, raised |-> a.raised, core_calls |-> <<inv>>,
             core_result |-> res, dynamics_invoked |-> res.dynamics_invoked]

\* what run does with the core's outcome: an exception of the core leaves
\* run; a returned pair is wrapped by Analysis(trajectory=..., times=...)
run_wrap(inv, res) ==
    IF res.raised # NoExc
    THEN RunRaise(res.raised, <<inv>>, res)
    ELSE LET a == Analysis_call({"trajectory", "times"}, res.trajectory, NoneArr, NoneNum)
         IN [returned |-> a.self, raised |-> a.raised, core_calls |-> <<inv>>,
             core_result |-> res, dynamics_invoked |-> res.dynamics_invoked]

\* the keyword names of a call sim.run(...)
RunCallNames(call) == {k \in {"solver", "mode"} : call[k] # Absent}

\* the outcomes of sim.run(**call)
run(self, call) ==
    IF UnexpectedKeywords(RunCallNames(call), run_params) # {}
    THEN {RunRaise(Exc("TypeError", "run() got an unexpected keyword argument"),
                   <<>>, NoCoreResult)}
    ELSE LET solver == IF call.solver = Absent THEN run_default_solver ELSE call.solver
         IN IF solver \notin DOMAIN solver_map
            THEN {RunRaise(Exc("ValueError", "Solver is not supported."),
                           <<>>, NoCoreResult)}
            ELSE LET inv == run_invocation(self, solver)
                 IN {run_wrap(inv, res) : res \in CoreOutcomes(inv)}

(***************************************************************************)
(* The arguments callers pass.                                             *)
(***************************************************************************)
DynamicsArgs == DynamicsFuncs \cup {"not_callable"}

InitialStateArgs ==
    {[ndim |-> 1, data |-> <<0>>], [ndim |-> 1, data |-> <<1, 0>>],
     [ndim |-> 0, data |-> <<>>], [ndim |-> 2, data |-> <<1, 0>>]}

TSpanArgs ==
    {[isTuple |-> TRUE, elems |-> <<a, b>>] : a \in 0..1, b \in 0..MaxTime}
    \cup {[isTuple |-> FALSE, elems |-> <<0, 1>>],
          [isTuple |-> TRUE, elems |-> <<0>>],
          [isTuple |-> TRUE, elems |-> <<0, 1, 2>>]}

DtArgs ==
    {[isNumber |-> TRUE, val |-> v] : v \in -1..2}
    \cup {[isNumber |-> FALSE, val |-> 1]}

TolArgs == {-1, 0, 2}

OptionItems ==
    {{}} \cup {{<<"abstol", v>>} : v \in TolArgs}
         \cup {{<<"reltol", v>>} : v \in TolArgs}
         \cup {{<<"abstol", v>>, <<"reltol", w>>} : v \in TolArgs, w \in TolArgs}

SolverOptionsArgs ==
    {[type |-> "None", items |-> {}], [type |-> "list", items |-> {}]}
    \cup {[type |-> "dict", items |-> d] : d \in OptionItems}

SolverArgs ==
    {"rk45_adaptive", "rk4_explicit", "euler_explicit", "rk4_implicit",
     "euler_implicit", "RK45", "RK4", "Euler", "bogus", Absent}

ModeArgs == {"Adaptive", "Explicit", "Implicit", Absent}

RunCalls == [solver : SolverArgs, mode : ModeArgs]

(***************************************************************************)
(* The caller's session with one Simulation: sim is the object bound by    *)
(* sim = Simulation(...), ana the Analysis the caller holds, op the last   *)
(* call with its outcome and the calls it made into the core.              *)
(***************************************************************************)
NoOp ==
    [name |-> "none", call |-> <<>>, returned |-> NoObj, raised |-> NoExc,
     core_calls |-> <<>>, core_result |-> NoCoreResult, dynamics_invoked |-> FALSE]

Init ==
    /\ sim = NoObj
    /\ ana = NoObj
    /\ op = NoOp
    /\ core = IdleCore

\* sim = Simulation(dynamics_func, initial_state, t_span, dt, solver_options),
\* the first statement of the session
SimulationInit ==
    /\ sim = NoObj
    /\ op = NoOp
    /\ \E d \in DynamicsArgs, y0 \in InitialStateArgs, ts \in TSpanArgs,
          h \in DtArgs, so \in SolverOptionsArgs :
          LET r == Simulation_init(d, y0, ts, h, so)
          IN /\ sim' = r.self
             /\ op' = [name |-> "Simulation", call |-> <<d, y0, ts, h, so>>,
                       returned |-> r.self, raised |-> r.raised,
                       core_calls |-> <<>>, core_result |-> NoCoreResult,
                       dynamics_invoked |-> FALSE]
    /\ UNCHANGED <<ana, core>>

\* ana = sim.run(**call)
SimulationRun ==
    /\ sim # NoObj
    /\ \E call \in RunCalls :
          \E r \in run(sim, call) :
             /\ op' = [name |-> "run", call |-> call] @@ r
             /\ ana' = IF r.raised = NoExc THEN r.returned ELSE ana
    /\ UNCHANGED <<sim, core>>

Next == SimulationInit \/ SimulationRun

Spec == Init /\ [][Next]_vars

(***************************************************************************)
(* Properties of Simulation.run                                            *)
(***************************************************************************)
IsRun == op.name = "run"

CoreCalled == op.core_calls # <<>>

CoreReturned == CoreCalled /\ op.core_result.raised = NoExc

\* C1: whenever the core solver returns (trajectory, times), run returns an
\* Analysis holding that trajectory, with the per-point times as t for the
\* adaptive solver and with only dt for the fixed-step solvers.
C1_RunReturnsAnalysis ==
    (IsRun /\ CoreReturned) =>
        /\ op.raised = NoExc
        /\ op.returned.kind = "Analysis"
        /\ op.returned.trajectory = op.core_result.trajectory
        /\ IF op.core_calls[1].func = "solve_rk45_adaptive"
           THEN op.returned.t = op.core_result.times
           ELSE op.returned.t = NoneArr /\ op.returned.dt = SomeNum(sim.dt)

\* the (solver, mode) pairs of the tests and the core solver each one names
TestDispatch ==
    {[solver |-> "RK45", mode |-> "Adaptive", func |-> "solve_rk45_adaptive"],
     [solver |-> "RK4", mode |-> "Explicit", func |-> "solve_rk4_explicit"],
     [solver |-> "Euler", mode |-> "Explicit", func |-> "solve_euler_explicit"],
     [solver |-> "Euler", mode |-> "Implicit", func |-> "solve_euler_implicit"]}

\* C2: run accepts a (solver, mode) pair as the tests pass it and invokes
\* exactly the matching core solver, once, with the configured dynamics,
\* initial state, t_start, t_end and dt.
C2_DispatchesSolverModePairs ==
    \A p \in TestDispatch :
        (IsRun /\ op.call.solver = p.solver /\ op.call.mode = p.mode) =>
            /\ Len(op.core_calls) = 1
            /\ op.core_calls[1].func = p.func
            /\ op.core_calls[1].args =
                   <<sim.dynamics_func, sim.initial_state, sim.t_span[1],
                     sim.t_span[2], sim.dt>>

\* C3: run() without a solver argument invokes the adaptive RK45 solver with
\* abstol and reltol taken from solver_options (1e-6 each when absent); every
\* other solver is invoked with the five common arguments only.
C3_DefaultSolverIsAdaptive ==
    IsRun =>
        /\ (op.call = [solver |-> Absent, mode |-> Absent]) =>
               /\ Len(op.core_calls) = 1
               /\ op.core_calls[1].func = "solve_rk45_adaptive"
               /\ op.core_calls[1].kwargs =
                      {<<"abstol", DictGet(sim.solver_options, "abstol", DefaultTol)>>,
                       <<"reltol", DictGet(sim.solver_options, "reltol", DefaultTol)>>}
        /\ \A i \in DOMAIN op.core_calls :
               op.core_calls[i].func # "solve_rk45_adaptive" =>
                   /\ op.core_calls[i].kwargs = {}
                   /\ Len(op.core_calls[i].args) = 5

\* the solver names run documents as supported
SupportedSolvers ==
    {"rk45_adaptive", "rk4_explicit", "euler_explicit", "rk4_implicit", "euler_implicit"}

InvalidConstruction(c) ==
    \/ ~callable(c[1])
    \/ c[2].ndim # 1
    \/ ~c[3].isTuple
    \/ Len(c[3].elems) # 2
    \/ c[3].elems[2] <= c[3].elems[1]
    \/ ~c[4].isNumber
    \/ c[4].val <= 0

\* C5: a configuration with a non-callable dynamics function, a non-1D
\* initial state, a t_span that is not a 2-tuple, t_end <= t_start, a
\* non-positive dt or a non-positive abstol/reltol is rejected with a
\* configuration error before the dynamics function or a core solver is
\* invoked, and no Simulation is left behind: no invalid construction
\* succeeds and no call into the core ever carries a non-positive tolerance.
C5_InvalidConfigurationRejectedEagerly ==
    /\ (op.name = "Simulation" /\ InvalidConstruction(op.call)) =>
           /\ op.raised.type \in {"ValueError", "TypeError"}
           /\ sim = NoObj
    /\ \A i \in DOMAIN op.core_calls :
           \A kw \in op.core_calls[i].kwargs : kw[2] > 0

\* C6: an error raised by the dynamics callback or by the core solver during
\* run reaches the caller of run unchanged and nothing is returned; every run
\* ends either with a result or with an exception, never both, never neither.
C6_CoreErrorSurfaces ==
    IsRun =>
        /\ (CoreCalled /\ op.core_result.raised # NoExc) =>
               /\ op.raised = op.core_result.raised
               /\ op.returned = NoObj
        /\ (op.raised # NoExc) # (op.returned # NoObj)

C6_Witness ==
    /\ IsRun
    /\ CoreCalled
    /\ op.core_result.dynamics_invoked
    /\ op.core_result.raised = Exc("RuntimeError", "dynamics")
    /\ op.raised = op.core_result.raised

(***************************************************************************)
(* The native analysis tools (specification 3, 4.6, 4.8).                  *)
(***************************************************************************)
\* 3: bin coordinate (floor(x / epsilon), floor(y / epsilon))
BinCoordinate(p, epsilon) == <<p[1] \div epsilon, p[2] \div epsilon>>

\* 4.8: for every point, increment the count of its bin in the sparse mapping
RECURSIVE BoxCount(_, _, _, _)
BoxCount(points, epsilon, i, hd) ==
    IF i > Len(points) THEN hd
    ELSE LET b == BinCoordinate(points[i], epsilon)
         IN BoxCount(points, epsilon, i + 1,
                     IF b \in DOMAIN hd
                     THEN [hd EXCEPT ![b] = @ + 1]
                     ELSE hd @@ (b :> 1))

\* Stats.compute_invariant_measure(projected_traj, epsilon): {(bx, by): count}
compute_invariant_measure(projected_traj, epsilon) ==
    BoxCount(projected_traj.data, epsilon, 1, <<>>)

\* 4.6: the window (x_i, x_{i+tau}, ..., x_{i+(m-1)tau})
Window(x, i, m, tau) == [k \in 1..m |-> x[i + (k - 1) * tau]]

\* 4.6: the permutation of 0..m-1 that sorts the window into ascending order
\* (equal values keep their order)
OrdinalPattern(w) ==
    LET rank(i) == 1 + Cardinality({j \in DOMAIN w :
                                       w[j] < w[i] \/ (w[j] = w[i] /\ j < i)})
    IN [k \in DOMAIN w |-> (CHOOSE i \in DOMAIN w : rank(i) = k) - 1]

\* 4.6: the indices i for which i + (m-1) tau is in range
WindowStarts(x, m, tau) == 1..(Len(x) - (m - 1) * tau)

\* Entropy.compute_permutation(time_series, m, tau).  The entropy
\* -sum(p_j ln p_j) / ln(m!) is a function of the pattern counts, which is
\* what the model returns.  m < 2 is refused before the series is read; what
\* a series without a single window gives is left open by 4.6.
compute_permutation(time_series, m, tau) ==
    LET x == time_series.data
        starts == WindowStarts(x, m, tau)
        pats == [i \in starts |-> OrdinalPattern(Window(x, i, m, tau))]
        observed == {pats[i] : i \in starts}
        value == [kind |-> "entropy",
                  n_windows |-> Cardinality(starts),
                  counts |-> [q \in observed |->
                                 Cardinality({i \in starts : pats[i] = q})]]
    IN IF m < 2
       THEN {[raised |-> Exc("ValueError", "Embedding dimension 'm' must be at least 2"),
              value |-> NoObj, windows |-> 0]}
       ELSE IF starts = {}
       THEN {[raised |-> Exc("ValueError", "time series too short"),
              value |-> NoObj, windows |-> 0],
             [raised |-> NoExc, value |-> value, windows |-> 0]}
       ELSE {[raised |-> NoExc, value |-> value, windows |-> Cardinality(starts)]}

(***************************************************************************)
(* Analysis.invariant_measure                                              *)
(***************************************************************************)
\* a Python index into an axis of length n
IndexOk(idx, n) == -n <= idx /\ idx < n

Column(idx, n) == IF idx >= 0 THEN idx + 1 ELSE idx + n + 1

\* self.trajectory[:, list(dims)]
project(trajectory, dims) ==
    Array2D([r \in DOMAIN trajectory.data |->
                [c \in DOMAIN dims |->
                    trajectory.data[r][Column(dims[c], trajectory.shape[2])]]],
            Len(dims))

\* self.trajectory[:, 0] whatever dim is
column_first(trajectory, dim) ==
    Array1D([r \in DOMAIN trajectory.data |-> trajectory.data[r][1]])

\* self.trajectory[:, dim]
column(trajectory, dim) ==
    Array1D([r \in DOMAIN trajectory.data |->
                trajectory.data[r][Column(dim, trajectory.shape[2])]])

SetMin(S) == CHOOSE a \in S : \A b \in S : a <= b

SetMax(S) == CHOOSE a \in S : \A b \in S : a >= b

\* coords.min(axis=0)
min_coords(coords) == <<SetMin({c[1] : c \in coords}), SetMin({c[2] : c \in coords})>>

\* coords.max(axis=0)
max_coords(coords) == <<SetMax({c[1] : c \in coords}), SetMax({c[2] : c \in coords})>>

\* (max_coords - min_coords) + 1
grid_shape(lo, hi) == <<hi[1] - lo[1] + 1, hi[2] - lo[2] + 1>>

\* the scatter indexed with coords instead of coords - min_coords
histogram_no_offset(histogram_dict) ==
    LET coords == DOMAIN histogram_dict
        shape == grid_shape(min_coords(coords), max_coords(coords))
    IN [i \in 1..shape[1] |->
           [j \in 1..shape[2] |->
               LET key == <<i - 1, j - 1>>
               IN IF key \in coords THEN histogram_dict[key] ELSE 0]]

\* the scatter writing 1 into every visited cell instead of its count
histogram_presence(histogram_dict) ==
    LET coords == DOMAIN histogram_dict
        lo == min_coords(coords)
        shape == grid_shape(lo, max_coords(coords))
    IN [i \in 1..shape[1] |->
           [j \in 1..shape[2] |->
               LET key == <<lo[1] + i - 1, lo[2] + j - 1>>
               IN IF key \in coords THEN 1 ELSE 0]]

\* np.zeros(grid_shape), then histogram[coords - min_coords] = counts
histogram(histogram_dict) ==
    LET coords == DOMAIN histogram_dict
        lo == min_coords(coords)
        shape == grid_shape(lo, max_coords(coords))
    IN [i \in 1..shape[1] |->
           [j \in 1..shape[2] |->
               LET key == <<lo[1] + i - 1, lo[2] + j - 1>>
               IN IF key \in coords THEN histogram_dict[key] ELSE 0]]

\* np.arange(lo, hi + 1) * epsilon
bin_edges_short(lo, hi, epsilon) == [k \in 1..(hi + 1 - lo) |-> (lo + k - 1) * epsilon]

\* np.arange(lo, hi + 2) * epsilon
bin_edges(lo, hi, epsilon) == [k \in 1..(hi + 2 - lo) |-> (lo + k - 1) * epsilon]

\* len(dims) < 2
dims_rejected_below(dims) == Len(dims) < 2

\* len(dims) != 2
dims_rejected(dims) == Len(dims) # 2

AnalysisRaise(exc, calls) ==
    [returned |-> NoObj, raised |-> exc, core_calls |-> calls,
     core_result |-> NoObj, dynamics_invoked |-> FALSE]

invariant_measure(self, epsilon, dims) ==
    IF dims_rejected(dims)
    THEN AnalysisRaise(Exc("ValueError",
             "Invariant measure projection currently only supports 2 dimensions."), <<>>)
    ELSE IF \E c \in DOMAIN dims : ~IndexOk(dims[c], self.n_dims)
    THEN AnalysisRaise(Exc("IndexError", "index is out of bounds for axis 1"), <<>>)
    ELSE LET projected_traj == project(self.trajectory, dims)
             histogram_dict == compute_invariant_measure(projected_traj, epsilon)
             calls == <<[func |-> "compute_invariant_measure",
                         args |-> <<projected_traj, epsilon>>, kwargs |-> {}]>>
             coords == DOMAIN histogram_dict
         IN [returned |->
                 IF coords = {}
                 THEN [kind |-> "tuple", histogram |-> <<<<>>>>,
                       x_bins |-> <<>>, y_bins |-> <<>>]
                 ELSE [kind |-> "tuple", histogram |-> histogram(histogram_dict),
                       x_bins |-> bin_edges(min_coords(coords)[1],
                                            max_coords(coords)[1], epsilon),
                       y_bins |-> bin_edges(min_coords(coords)[2],
                                            max_coords(coords)[2], epsilon)],
             raised |-> NoExc, core_calls |-> calls,
             core_result |-> [raised |-> NoExc, value |-> histogram_dict,
                              windows |-> 0],
             dynamics_invoked |-> FALSE]

(***************************************************************************)
(* Analysis.permutation_entropy                                            *)
(***************************************************************************)
\* compute_permutation(time_series, tau, m): the two integers interchanged
permutation_entropy_swapped(self, dim, m, tau) ==
    IF ~IndexOk(dim, self.n_dims)
    THEN {AnalysisRaise(Exc("IndexError", "index is out of bounds for axis 1"), <<>>)}
    ELSE LET time_series == column(self.trajectory, dim)
             calls == <<[func |-> "compute_permutation",
                         args |-> <<time_series, tau, m>>, kwargs |-> {}]>>
         IN {[returned |-> r.value, raised |-> r.raised, core_calls |-> calls,
              core_result |-> r, dynamics_invoked |-> FALSE] :
                 r \in compute_permutation(time_series, tau, m)}

permutation_entropy(self, dim, m, tau) ==
    IF ~IndexOk(dim, self.n_dims)
    THEN {AnalysisRaise(Exc("IndexError", "index is out of bounds for axis 1"), <<>>)}
    ELSE LET time_series == column(self.trajectory, dim)
             calls == <<[func |-> "compute_permutation",
                         args |-> <<time_series, m, tau>>, kwargs |-> {}]>>
         IN {[returned |-> r.value, raised |-> r.raised, core_calls |-> calls,
              core_result |-> r, dynamics_invoked |-> FALSE] :
                 r \in compute_permutation(time_series, m, tau)}

(***************************************************************************)
(* The caller's session with one Analysis built from its own trajectory.   *)
(***************************************************************************)
Coords == {-3, 0, 2}

\* the rows of the two-column trajectories
Points == {<<x, y>> : x \in Coords, y \in {-3, 2}}

\* the rows of the one-column trajectories
Samples == {<<x>> : x \in Coords}

\* the trajectory of test_invariant_measure, in tenths
TestTrajectory == <<<<1, 11>>, <<2, 12>>, <<23, 4>>, <<8, 19>>>>

TrajectoryArgs ==
    {Array2D(rows, 2) : rows \in UNION {[1..n -> Points] : n \in 0..MaxPoints}}
    \cup {Array2D(rows, 1) : rows \in UNION {[1..n -> Samples] : n \in 1..MaxSeries}}
    \cup {Array2D(TestTrajectory, 2)}
    \cup {Array1D(<<1, 2, 3>>),
          [isArray |-> FALSE, ndim |-> 2, shape |-> <<1, 2>>, data |-> <<<<0, 0>>>>]}

\* the keyword sets of Analysis(trajectory, ...) calls
TimeKeywords == {{}, {"t"}, {"dt"}}

EpsilonArgs == {1, 2, 10}

DimsArgs == {<<0, 1>>, <<1, 0>>, <<0, 0>>, <<-1, 0>>, <<0, 2>>, <<0>>, <<0, 1, 1>>, <<>>}

DimArgs == {0, 1, -1, 2}

EmbeddingArgs == 0..3

DelayArgs == {1, 2}

\* ana = Analysis(trajectory, t=..., dt=...), the first statement of the session
AnalysisInit ==
    /\ ana = NoObj
    /\ op = NoOp
    /\ \E trajectory \in TrajectoryArgs, kws \in TimeKeywords :
          LET t == Array1D([i \in 1..trajectory.shape[1] |-> i - 1])
              dt == SomeNum(1)
              r == Analysis_call({"trajectory"} \cup kws, trajectory, t, dt)
          IN /\ ana' = r.self
             /\ op' = [name |-> "Analysis", call |-> <<trajectory, kws>>,
                       returned |-> r.self, raised |-> r.raised,
                       core_calls |-> <<>>, core_result |-> NoObj,
                       dynamics_invoked |-> FALSE]
    /\ UNCHANGED <<sim, core>>

\* ana.invariant_measure(epsilon, dims)
InvariantMeasure ==
    /\ ana # NoObj
    /\ \E epsilon \in EpsilonArgs, dims \in DimsArgs :
          op' = [name |-> "invariant_measure",
                 call |-> [epsilon |-> epsilon, dims |-> dims]]
                @@ invariant_measure(ana, epsilon, dims)
    /\ UNCHANGED <<sim, ana, core>>

\* ana.permutation_entropy(dim, m, tau)
PermutationEntropy ==
    /\ ana # NoObj
    /\ \E dim \in DimArgs, m \in EmbeddingArgs, tau \in DelayArgs :
          \E r \in permutation_entropy(ana, dim, m, tau) :
             op' = [name |-> "permutation_entropy",
                    call |-> [dim |-> dim, m |-> m, tau |-> tau]] @@ r
    /\ UNCHANGED <<sim, ana, core>>

NextAnalysis == AnalysisInit \/ InvariantMeasure \/ PermutationEntropy

SpecAnalysis == Init /\ [][NextAnalysis]_vars

(***************************************************************************)
(* Properties of Analysis.invariant_measure and permutation_entropy        *)
(***************************************************************************)
MeasureReturned ==
    /\ op.name = "invariant_measure"
    /\ op.raised = NoExc
    /\ ana.n_points > 0

\* the points of the stored trajectory on the two requested dimensions
ProjectedPoints ==
    [r \in 1..ana.n_points |->
        <<ana.trajectory.data[r][Column(op.call.dims[1], ana.n_dims)],
          ana.trajectory.data[r][Column(op.call.dims[2], ana.n_dims)]>>]

\* floor(x / epsilon): the integer b with b epsilon <= x < (b + 1) epsilon
Floor(x, epsilon) ==
    CHOOSE b \in -(Abs(x) + 1)..(Abs(x) + 1) :
        b * epsilon <= x /\ x < (b + 1) * epsilon

PointBin(r) ==
    <<Floor(ProjectedPoints[r][1], op.call.epsilon),
      Floor(ProjectedPoints[r][2], op.call.epsilon)>>

MinBin(axis) == SetMin({PointBin(r)[axis] : r \in 1..ana.n_points})

MaxBin(axis) == SetMax({PointBin(r)[axis] : r \in 1..ana.n_points})

\* C7: for a non-empty trajectory and epsilon > 0 the grid has shape
\* (max_bx - min_bx + 1, max_by - min_by + 1) and cell (bx - min_bx,
\* by - min_by) is the number of points whose bin coordinate is (bx, by),
\* which is 0 for a bin no point visited.
C7_DenseGridCounts ==
    MeasureReturned =>
        LET h == op.returned.histogram
        IN /\ Len(h) = MaxBin(1) - MinBin(1) + 1
           /\ \A i \in DOMAIN h : Len(h[i]) = MaxBin(2) - MinBin(2) + 1
           /\ \A bx \in MinBin(1)..MaxBin(1), by \in MinBin(2)..MaxBin(2) :
                  h[bx - MinBin(1) + 1][by - MinBin(2) + 1] =
                      Cardinality({r \in 1..ana.n_points : PointBin(r) = <<bx, by>>})

\* the example of test_invariant_measure
C7_Witness ==
    /\ MeasureReturned
    /\ ana.trajectory.data = TestTrajectory
    /\ op.call = [epsilon |-> 10, dims |-> <<0, 1>>]
    /\ op.returned.histogram = <<<<0, 3>>, <<0, 0>>, <<1, 0>>>>

\* C8: on each axis edge_k = (min_bin + k) epsilon for k = 0 .. number of
\* cells, so an edge array has one entry more than the grid has cells on its
\* axis, and the points of cell k lie in [edge_k, edge_k+1).
C8_BinEdges ==
    MeasureReturned =>
        LET h == op.returned.histogram
            edges == <<op.returned.x_bins, op.returned.y_bins>>
            cells == <<Len(h), Len(h[1])>>
        IN \A axis \in 1..2 :
              /\ Len(edges[axis]) = cells[axis] + 1
              /\ \A k \in 0..cells[axis] :
                     edges[axis][k + 1] = (MinBin(axis) + k) * op.call.epsilon
              /\ \A r \in 1..ana.n_points :
                     LET k == PointBin(r)[axis] - MinBin(axis)
                     IN /\ k \in 0..(cells[axis] - 1)
                        /\ edges[axis][k + 1] <= ProjectedPoints[r][axis]
                        /\ ProjectedPoints[r][axis] < edges[axis][k + 2]

C8_Witness ==
    /\ MeasureReturned
    /\ op.call.epsilon = 2
    /\ Len(op.returned.x_bins) = 5
    /\ op.returned.x_bins[1] = -4
    /\ Len(op.returned.y_bins) = 2

\* C9: invariant_measure with a dims sequence whose length is not 2 raises
\* ValueError, makes no call into the box-counting core and leaves the
\* Analysis object as it was.
C9_DimsCountRejected ==
    [][(op'.name = "invariant_measure" /\ Len(op'.call.dims) # 2) =>
           /\ op'.raised.type = "ValueError"
           /\ op'.returned = NoObj
           /\ op'.core_calls = <<>>
           /\ ana' = ana]_vars

C9_Witness ==
    /\ op.name = "invariant_measure"
    /\ op.call.dims = <<0, 1, 1>>
    /\ op.raised.type = "ValueError"
    /\ ana.n_points > 0

\* C10: permutation_entropy with m < 2 fails and returns nothing, no window
\* of the time series is formed, and for a column of the trajectory the
\* error is ValueError "Embedding dimension 'm' must be at least 2".
C10_EmbeddingDimensionRejected ==
    (op.name = "permutation_entropy" /\ op.call.m < 2) =>
        /\ op.raised # NoExc
        /\ op.returned = NoObj
        /\ op.core_calls # <<>> => op.core_result.windows = 0
        /\ IndexOk(op.call.dim, ana.n_dims) =>
               op.raised = Exc("ValueError", "Embedding dimension 'm' must be at least 2")

C10_Witness ==
    /\ op.name = "permutation_entropy"
    /\ op.call = [dim |-> 0, m |-> 1, tau |-> 2]
    /\ ana.n_points >= 3
    /\ op.core_calls # <<>>
    /\ op.raised = Exc("ValueError", "Embedding dimension 'm' must be at least 2")

\* C11: Analysis(trajectory, ...) raises ValueError when the trajectory is
\* not a 2D NumPy array and when neither t nor dt is given; after a
\* successful construction n_points and n_dims are the numbers of rows and
\* of columns of the trajectory.
C11_AnalysisConstruction ==
    op.name = "Analysis" =>
        LET trajectory == op.call[1]
            kws == op.call[2]
        IN /\ (~trajectory.isArray \/ trajectory.ndim # 2) =>
                  op.raised.type = "ValueError" /\ ana = NoObj
           /\ kws \cap {"t", "dt"} = {} =>
                  op.raised.type = "ValueError" /\ ana = NoObj
           /\ op.raised = NoExc =>
                  /\ ana.kind = "Analysis"
                  /\ ana.trajectory = trajectory
                  /\ ana.n_points = Len(trajectory.data)
                  /\ \A r \in DOMAIN trajectory.data :
                         ana.n_dims = Len(trajectory.data[r])

C11_Witness ==
    /\ op.name = "Analysis"
    /\ op.raised = NoExc
    /\ ana.n_points = 3
    /\ ana.n_dims = 1

(***************************************************************************)
(* Analysis.to_dataframe                                                   *)
(***************************************************************************)
\* np.arange(start, stop, step) for a positive step
arange(start, stop, step) ==
    [i \in 1..Max(0, CeilDiv(stop - start, step)) |-> start + (i - 1) * step]

\* xs[:n]
Take(xs, n) == SubSeq(xs, 1, Min(n, Len(xs)))

\* Optional[List[str]]
NoneNames == [some |-> FALSE, val |-> <<>>]

SomeNames(names) == [some |-> TRUE, val |-> names]

\* f'x{i}' for the column indices that occur
xname == <<"x0", "x1", "x2", "x3">>

\* [f'x{i}' for i in range(n)]
default_column_names(n) == [i \in 1..n |-> xname[i]]

\* self.to_dataframe(column_names): the frame has the trajectory's columns
\* and, in front, a "time" column: self.t, or the axis rebuilt from self.dt
to_dataframe(self, column_names) ==
    LET names == IF column_names.some THEN column_names.val
                 ELSE default_column_names(self.n_dims)
    IN IF Len(names) # self.n_dims
       THEN AnalysisRaise(Exc("ValueError", "Expected n_dims column names."), <<>>)
       ELSE LET time_axis == arange(0, self.n_points * self.dt.val, self.dt.val)
                time == IF self.t.isArray THEN self.t.data
                        ELSE IF self.dt.some THEN Take(time_axis, self.n_points)
                        ELSE <<>>
                timed == self.t.isArray \/ self.dt.some
            IN [returned |-> [kind |-> "DataFrame",
                              columns |-> IF timed THEN <<"time">> \o names ELSE names,
                              time |-> time,
                              data |-> self.trajectory.data],
                raised |-> NoExc, core_calls |-> <<>>, core_result |-> NoObj,
                dynamics_invoked |-> FALSE]

ColumnNamesArgs == {NoneNames, SomeNames(<<"a">>), SomeNames(<<"a", "b">>)}

(***************************************************************************)
(* One run of a core integrator, pass by pass: the Simulation's run calls  *)
(* into the core with its configuration, the loop advances, and the caller *)
(* hands the trajectory it got to an Analysis (with dt for a fixed-step    *)
(* run, with the times for an adaptive one) and asks for its frame.        *)
(***************************************************************************)
\* run reaches the core call for a solver of solver_map
RunCallsCore ==
    /\ sim # NoObj
    /\ core.status = "idle"
    /\ \E solver \in DOMAIN solver_map :
          LET inv == run_invocation(sim, solver)
          IN /\ core' \in CoreEntry(inv)
             /\ op' = [name |-> "solve", call |-> [solver |-> solver],
                       returned |-> NoObj, raised |-> NoExc,
                       core_calls |-> <<inv>>, core_result |-> NoCoreResult,
                       dynamics_invoked |-> FALSE]
    /\ UNCHANGED <<sim, ana>>

\* one pass of the integrator's loop
CoreAdvance ==
    /\ core.status = "running"
    /\ core' = CoreStep(core)
    /\ UNCHANGED <<sim, ana, op>>

\* ana = Analysis(trajectory=trajectory, dt=sim.dt) for a fixed-step
\* trajectory, Analysis(trajectory=trajectory, t=times) for an adaptive one
AnalysisOfCore ==
    /\ core.status = "done"
    /\ ana = NoObj
    /\ LET res == CoreResult(core)
           kw == IF Adaptive(core) THEN "t" ELSE "dt"
           r == Analysis_call({"trajectory", kw}, res.trajectory, res.times,
                              SomeNum(sim.dt))
       IN /\ ana' = r.self
          /\ op' = [name |-> "Analysis", call |-> <<res.trajectory, {kw}>>,
                    returned |-> r.self, raised |-> r.raised,
                    core_calls |-> <<>>, core_result |-> NoObj,
                    dynamics_invoked |-> FALSE]
    /\ UNCHANGED <<sim, core>>

\* ana.to_dataframe(column_names)
ToDataframe ==
    /\ ana # NoObj
    /\ \E column_names \in ColumnNamesArgs :
          op' = [name |-> "to_dataframe", call |-> [column_names |-> column_names]]
                @@ to_dataframe(ana, column_names)
    /\ UNCHANGED <<sim, ana, core>>

NextCore ==
    SimulationInit \/ RunCallsCore \/ CoreAdvance \/ AnalysisOfCore \/ ToDataframe

SpecCore == Init /\ [][NextCore]_vars

FixedStepDone == core.status = "done" /\ ~Adaptive(core)

Last(xs) == xs[Len(xs)]

\* C12: a fixed-step run (Euler, RK4, implicit Euler) over t_start < t_end
\* with step h > 0 records exactly ceil((t_end - t_start)/h) + 1 points and
\* its last recorded time is t_end, also when the span is not a multiple
\* of h.
C12_FixedStepPointCount ==
    FixedStepDone =>
        /\ Len(core.rows) = CeilDiv(sim.t_span[2] - sim.t_span[1], sim.dt) + 1
        /\ Len(core.times) = Len(core.rows)
        /\ Last(core.times) = sim.t_span[2]

C12_Witness ==
    /\ FixedStepDone
    /\ core.func = "solve_euler_implicit"
    /\ (sim.t_span[2] - sim.t_span[1]) % sim.dt # 0
    /\ Len(core.rows) = 3

\* the frame of a fixed-step trajectory whose time axis was rebuilt from dt
FrameOfFixedStep ==
    /\ op.name = "to_dataframe"
    /\ op.raised = NoExc
    /\ FixedStepDone
    /\ ~ana.t.isArray

\* C13: the time axis that to_dataframe rebuilds from dt for a fixed-step
\* trajectory has exactly n_points entries, and entry i (counted from 0) is
\* the time of point i of the trajectory, t_start + i*dt.
C13_ReconstructedTimeAxis ==
    FrameOfFixedStep =>
        /\ Len(op.returned.time) = ana.n_points
        /\ \A i \in 1..ana.n_points :
               op.returned.time[i] = sim.t_span[1] + (i - 1) * sim.dt

AdaptiveRun == core.status # "idle" /\ Adaptive(core)

SpecCoreFair == SpecCore /\ WF_vars(CoreAdvance)

AdaptiveRunning == core.status = "running" /\ Adaptive(core)

CoreTerminated == core.status \in {"done", "failed"}

\* C15: every adaptive run terminates, reaching t_end or failing with step
\* size underflow; underflow is raised only for a step rejected at the
\* minimum step size, and the consecutive rejections of one step are bounded
\* (here by the length of the span, the largest step there is to shrink).
C15_AdaptiveTerminates ==
    /\ [](AdaptiveRun =>
            /\ core.rejections <= sim.t_span[2] - sim.t_span[1]
            /\ core.last = "underflow" =>
                  /\ core.status = "failed"
                  /\ core.h <= MinStep
                  /\ core.rejections >= 1
            /\ core.status = "done" => core.t = sim.t_span[2])
    /\ (AdaptiveRunning ~> CoreTerminated)

\* a run that ended in underflow after shrinking the step
C15_Witness ==
    /\ AdaptiveRun
    /\ core.last = "underflow"
    /\ core.rejections >= 2

\* the adaptive loop is about to try a step
AdaptiveTrying ==
    /\ AdaptiveRunning
    /\ core.t < core.t_end
    /\ core.dyn # "raises"

\* the local error of the step about to be tried is within
\* abstol + reltol |y|
WithinTolerance ==
    LET hs == Min(core.h, core.t_end - core.t)
    IN ErrorEstimate(core.dyn, core.t, core.y, hs)
           <= core.abstol + core.reltol * Norm(core.y)

\* C19: a pass of the adaptive loop accepts the step iff its error is within
\* abstol + reltol |y|.  An accepted step appends exactly one point, advances
\* time to that point and grows h by at most the bounded growth factor; a
\* rejected step appends nothing, leaves time and state unchanged and, when
\* the run goes on, strictly shrinks h.
C19_AcceptRejectStep ==
    [][(AdaptiveTrying /\ core' # core) =>
          /\ WithinTolerance <=> core'.last = "accept"
          /\ WithinTolerance =>
                /\ Len(core'.rows) = Len(core.rows) + 1
                /\ Len(core'.times) = Len(core.times) + 1
                /\ SubSeq(core'.rows, 1, Len(core.rows)) = core.rows
                /\ SubSeq(core'.times, 1, Len(core.times)) = core.times
                /\ core'.t > core.t
                /\ Last(core'.times) = core'.t
                /\ Last(core'.rows) = core'.y
                /\ core'.h <= GrowthFactor * core.h
                /\ core'.status = "running"
          /\ ~WithinTolerance =>
                /\ core'.rows = core.rows
                /\ core'.times = core.times
                /\ core'.t = core.t
                /\ core'.y = core.y
                /\ core'.status = "running" => core'.h < core.h
                /\ core'.status # "running" => core'.last = "underflow"
      ]_vars

\* a step rejected after an earlier one was accepted
C19_Witness ==
    /\ AdaptiveRun
    /\ core.last = "reject"
    /\ Len(core.rows) >= 2

\* C20: the first recorded time of a trajectory is t_start, the recorded
\* times strictly increase in insertion order, and the times array of an
\* adaptive run has as many entries as the trajectory has rows.
C20_TimesOrdered ==
    core.status \in {"running", "done"} =>
        /\ core.times[1] = sim.t_span[1]
        /\ \A i \in 1..(Len(core.times) - 1) : core.times[i] < core.times[i + 1]
        /\ Len(core.times) = Len(core.rows)
        /\ (core.status = "done" /\ Adaptive(core)) =>
               LET res == CoreResult(core)
               IN /\ res.times.isArray
                  /\ res.times.shape[1] = res.trajectory.shape[1]
                  /\ res.times.data = core.times

\* a completed adaptive run with irregular spacing
C20_Witness ==
    /\ core.status = "done"
    /\ Adaptive(core)
    /\ Len(core.times) >= 3
    /\ core.times[3] - core.times[2] # core.times[2] - core.times[1]

EntropyReturned == op.name = "permutation_entropy" /\ op.raised = NoExc

\* the series permutation_entropy was asked about, read off the trajectory
AnalysedSeries ==
    LET dim == op.call.dim
        c == IF dim >= 0 THEN dim + 1 ELSE dim + ana.n_dims + 1
    IN [r \in 1..ana.n_points |-> ana.trajectory.data[r][c]]

\* pattern q (a sequence over 0..m-1) lists the positions of the window of x
\* starting at i in ascending order of their values, earlier positions first
\* among equal values
SortsWindow(q, x, i, tau) ==
    \A k \in 1..(Len(q) - 1) :
        LET a == x[i + q[k] * tau]
            b == x[i + q[k + 1] * tau]
        IN a < b \/ (a = b /\ q[k] < q[k + 1])

IsPermutation(q, m) ==
    /\ Len(q) = m
    /\ {q[k] : k \in 1..m} = 0..(m - 1)

RECURSIVE Factorial(_)
Factorial(n) == IF n <= 1 THEN 1 ELSE n * Factorial(n - 1)

RECURSIVE Pow(_, _)
Pow(a, b) == IF b = 0 THEN 1 ELSE a * Pow(a, b - 1)

RECURSIVE SumOf(_, _)
SumOf(c, S) ==
    IF S = {} THEN 0
    ELSE LET q == CHOOSE q \in S : TRUE IN c[q] + SumOf(c, S \ {q})

\* the product of c_j^c_j over the patterns j of S
RECURSIVE ProductOfPowers(_, _)
ProductOfPowers(c, S) ==
    IF S = {} THEN 1
    ELSE LET q == CHOOSE q \in S : TRUE
         IN Pow(c[q], c[q]) * ProductOfPowers(c, S \ {q})

\* C17: permutation entropy of a series of N values with embedding m and
\* delay tau counts exactly N - (m-1) tau windows; every window is assigned
\* exactly one of the m! ordinal patterns, the one that sorts it; the pattern
\* frequencies c_j / n sum to 1; and the normalised entropy
\* -sum(p_j ln p_j) / ln(m!) lies in [0, 1], i.e.
\* prod c_j^c_j <= n^n <= (m!)^n prod c_j^c_j.
C17_PermutationEntropyCounts ==
    EntropyReturned =>
        LET x == AnalysedSeries
            m == op.call.m
            tau == op.call.tau
            n == op.returned.n_windows
            counts == op.returned.counts
            observed == DOMAIN counts
        IN /\ n = Max(0, Len(x) - (m - 1) * tau)
           /\ \A q \in observed : IsPermutation(q, m) /\ counts[q] >= 1
           /\ Cardinality(observed) <= Factorial(m)
           /\ \A i \in 1..n :
                  Cardinality({q \in observed : SortsWindow(q, x, i, tau)}) = 1
           /\ \A q \in observed :
                  counts[q] = Cardinality({i \in 1..n : SortsWindow(q, x, i, tau)})
           /\ SumOf(counts, observed) = n
           /\ n >= 1 =>
                  /\ ProductOfPowers(counts, observed) <= Pow(n, n)
                  /\ Pow(n, n) <= Pow(Factorial(m), n) * ProductOfPowers(counts, observed)

\* two windows of three values with different patterns
C17_Witness ==
    /\ EntropyReturned
    /\ op.call.m = 3
    /\ op.returned.n_windows = 2
    /\ Cardinality(DOMAIN op.returned.counts) = 2

(***************************************************************************)
(* Analysis.lyapunov_spectrum and the Benettin-QR solver behind it (4.5).  *)
(* ln|R_ii| of one interval is the stretch of tangent direction i over     *)
(* it; exponents are kept as pairs <<accumulator, elapsed time>>.          *)
(***************************************************************************)
\* 4.5 (3b-3d): ln|R_ii| after propagating the basis over an interval of
\* length dt from the reference state y: nothing for the constant field,
\* whose Jacobian vanishes, y_i dt for the other fields
LogStretch(dyn, y, i, dt) == IF dyn = "const" THEN 0 ELSE y[i] * dt

\* 4.5 (1), (3a): the reference state carried over an interval by the
\* adaptive integrator
Propagate(dyn, y, t, dt, h, abstol, reltol) ==
    RunCore(CoreRunning("solve_rk45_adaptive", dyn, y, t, t + dt, h, abstol, reltol))

\* 4.5 (3): increments of t_reorth until the accumulated time reaches
\* t_total; a failure of the integrator ends the loop
RECURSIVE lyapunov_loop(_)
lyapunov_loop(st) ==
    IF st.elapsed >= st.t_total THEN st
    ELSE LET c == Propagate(st.dyn, st.y, st.t, st.t_reorth, st.h, st.abstol, st.reltol)
             grown == [i \in DOMAIN st.y |-> LogStretch(st.dyn, st.y, i, st.t_reorth)]
             acc == [i \in DOMAIN st.y |-> st.acc[i] + grown[i]]
             elapsed == st.elapsed + st.t_reorth
         IN IF c.status = "failed"
            THEN [st EXCEPT !.raised = c.exc,
                            !.failed_interval = st.elapsed \div st.t_reorth + 1]
            ELSE lyapunov_loop(
                     [st EXCEPT !.y = c.y, !.t = c.t, !.h = c.h, !.acc = acc,
                                !.elapsed = elapsed,
                                !.increments = Append(st.increments, grown),
                                !.history = Append(st.history,
                                    [i \in DOMAIN st.y |-> <<acc[i], elapsed>>])])

\* failed_interval is the sub-interval in which the integrator failed: 0 for
\* the transient, k for the k-th increment of t_reorth, -1 when none did
LyapunovRaise(exc, steps, interval, invoked) ==
    [raised |-> exc, spectrum |-> NoObj, history |-> NoObj, increments |-> <<>>,
     reorth_steps |-> steps, failed_interval |-> interval,
     dynamics_invoked |-> invoked]

\* Lyapunov.compute_spectrum(dynamics, initial_state, t_transient, t_total,
\* t_reorth, h_init, abstol, reltol).  The final spectrum divides the
\* accumulators by the total elapsed time, which 4.5 (4) also calls t_total:
\* both readings are outcomes when t_total is not a multiple of t_reorth.
compute_spectrum(dynamics, initial_state, t_transient, t_total, t_reorth, h_init, abstol, reltol) ==
    IF t_transient < 0 \/ t_total <= 0 \/ t_reorth <= 0 \/ h_init <= 0
    THEN {LyapunovRaise(Exc("ValueError", "invalid run configuration"), 0, -1, FALSE)}
    ELSE LET transient == Propagate(dynamics, initial_state, 0, t_transient,
                                    h_init, abstol, reltol)
             st == lyapunov_loop(
                       [dyn |-> dynamics, y |-> transient.y, t |-> transient.t,
                        h |-> Max(transient.h, MinStep), abstol |-> abstol,
                        reltol |-> reltol, t_total |-> t_total,
                        t_reorth |-> t_reorth, elapsed |-> 0,
                        acc |-> [i \in DOMAIN initial_state |-> 0],
                        increments |-> <<>>, history |-> <<>>, raised |-> NoExc,
                        failed_interval |-> -1])
         IN IF transient.status = "failed"
            THEN {LyapunovRaise(transient.exc, 0, 0, TRUE)}
            ELSE IF st.raised # NoExc
            THEN {LyapunovRaise(st.raised, Len(st.history), st.failed_interval, TRUE)}
            ELSE {[raised |-> NoExc,
                   spectrum |-> [i \in DOMAIN initial_state |-> <<st.acc[i], total>>],
                   history |-> st.history, increments |-> st.increments,
                   reorth_steps |-> Len(st.history), failed_interval |-> -1,
                   dynamics_invoked |-> TRUE] :
                      total \in {st.elapsed, t_total}}

\* reltol: float = 1e-3
lyapunov_default_reltol == 1000

\* compute_spectrum called with t_reorth where t_total belongs and back
lyapunov_spectrum_swapped(self, dynamics, t_transient, t_total, t_reorth, h_init, abstol, reltol) ==
    IF self.n_points = 0
    THEN {AnalysisRaise(Exc("IndexError", "index -1 is out of bounds for axis 0"), <<>>)}
    ELSE LET initial_state_on_attractor == self.trajectory.data[self.n_points]
             calls == <<[func |-> "compute_spectrum",
                         args |-> <<dynamics, initial_state_on_attractor, t_transient,
                                    t_reorth, t_total, h_init, abstol, reltol>>,
                         kwargs |-> {}]>>
         IN {[returned |-> IF r.raised = NoExc
                           THEN [kind |-> "tuple", spectrum |-> r.spectrum,
                                 history |-> r.history]
                           ELSE NoObj,
              raised |-> r.raised, core_calls |-> calls, core_result |-> r,
              dynamics_invoked |-> r.dynamics_invoked] :
                 r \in compute_spectrum(dynamics, initial_state_on_attractor,
                                        t_transient, t_reorth, t_total, h_init,
                                        abstol, reltol)}

\* the solver started from the first point of the trajectory
lyapunov_spectrum_first_row(self, dynamics, t_transient, t_total, t_reorth, h_init, abstol, reltol) ==
    IF self.n_points = 0
    THEN {AnalysisRaise(Exc("IndexError", "index 0 is out of bounds for axis 0"), <<>>)}
    ELSE LET initial_state_on_attractor == self.trajectory.data[1]
             calls == <<[func |-> "compute_spectrum",
                         args |-> <<dynamics, initial_state_on_attractor, t_transient,
                                    t_total, t_reorth, h_init, abstol, reltol>>,
                         kwargs |-> {}]>>
         IN {[returned |-> IF r.raised = NoExc
                           THEN [kind |-> "tuple", spectrum |-> r.spectrum,
                                 history |-> r.history]
                           ELSE NoObj,
              raised |-> r.raised, core_calls |-> calls, core_result |-> r,
              dynamics_invoked |-> r.dynamics_invoked] :
                 r \in compute_spectrum(dynamics, initial_state_on_attractor,
                                        t_transient, t_total, t_reorth, h_init,
                                        abstol, reltol)}

\* the solver call wrapped in "except Exception: return None, None"
lyapunov_spectrum_swallow(self, dynamics, t_transient, t_total, t_reorth, h_init, abstol, reltol) ==
    IF self.n_points = 0
    THEN {AnalysisRaise(Exc("IndexError", "index -1 is out of bounds for axis 0"), <<>>)}
    ELSE LET initial_state_on_attractor == self.trajectory.data[self.n_points]
             calls == <<[func |-> "compute_spectrum",
                         args |-> <<dynamics, initial_state_on_attractor, t_transient,
                                    t_total, t_reorth, h_init, abstol, reltol>>,
                         kwargs |-> {}]>>
         IN {[returned |-> [kind |-> "tuple", spectrum |-> r.spectrum,
                            history |-> r.history],
              raised |-> NoExc, core_calls |-> calls, core_result |-> r,
              dynamics_invoked |-> r.dynamics_invoked] :
                 r \in compute_spectrum(dynamics, initial_state_on_attractor,
                                        t_transient, t_total, t_reorth, h_init,
                                        abstol, reltol)}

\* self.lyapunov_spectrum(dynamics, t_transient, t_total, t_reorth, h_init,
\* abstol, reltol): the solver starts from the last point of the trajectory
lyapunov_spectrum(self, dynamics, t_transient, t_total, t_reorth, h_init, abstol, reltol) ==
    IF self.n_points = 0
    THEN {AnalysisRaise(Exc("IndexError", "index -1 is out of bounds for axis 0"), <<>>)}
    ELSE LET initial_state_on_attractor == self.trajectory.data[self.n_points]
             calls == <<[func |-> "compute_spectrum",
                         args |-> <<dynamics, initial_state_on_attractor, t_transient,
                                    t_total, t_reorth, h_init, abstol, reltol>>,
                         kwargs |-> {}]>>
         IN {[returned |-> IF r.raised = NoExc
                           THEN [kind |-> "tuple", spectrum |-> r.spectrum,
                                 history |-> r.history]
                           ELSE NoObj,
              raised |-> r.raised, core_calls |-> calls, core_result |-> r,
              dynamics_invoked |-> r.dynamics_invoked] :
                 r \in compute_spectrum(dynamics, initial_state_on_attractor,
                                        t_transient, t_total, t_reorth, h_init,
                                        abstol, reltol)}

TransientArgs == {0, 1}

ReorthArgs == {1, 2}

ReltolArgs == {DefaultTol, lyapunov_default_reltol}

\* ana.lyapunov_spectrum(dynamics, t_transient, t_total, t_reorth, h_init,
\* reltol=reltol) on the object just built, as in test_lyapunov_spectrum_lorenz,
\* or after the object's frame was taken
LyapunovSpectrum ==
    /\ ana # NoObj
    /\ op.name \in {"Analysis", "to_dataframe"}
    /\ \E dynamics \in DynamicsFuncs, t_transient \in TransientArgs,
          t_total \in 1..MaxTime, t_reorth \in ReorthArgs, reltol \in ReltolArgs :
          \E r \in lyapunov_spectrum(ana, dynamics, t_transient, t_total, t_reorth,
                                     1, DefaultTol, reltol) :
             op' = [name |-> "lyapunov_spectrum",
                    call |-> [dynamics |-> dynamics, t_transient |-> t_transient,
                              t_total |-> t_total, t_reorth |-> t_reorth,
                              reltol |-> reltol]] @@ r
    /\ UNCHANGED <<sim, ana, core>>

NextLyapunov == AnalysisInit \/ LyapunovSpectrum

SpecLyapunov == Init /\ [][NextLyapunov]_vars

SpectrumReturned == op.name = "lyapunov_spectrum" /\ op.raised = NoExc

RECURSIVE Accumulated(_, _, _)
Accumulated(increments, i, k) ==
    IF k = 0 THEN 0 ELSE increments[k][i] + Accumulated(increments, i, k - 1)

\* C16: a successful Lyapunov computation returns a spectrum of length n and
\* a history with one row of length n per re-orthogonalization performed,
\* i.e. per t_reorth increment taken until the accumulated time reaches
\* t_total; row k (from 0) holds, for each i, accumulator i over the time
\* elapsed after k+1 increments.
C16_LyapunovHistory ==
    SpectrumReturned =>
        LET n == ana.n_dims
            spectrum == op.returned.spectrum
            history == op.returned.history
            K == Len(history)
            t_total == op.call.t_total
            t_reorth == op.call.t_reorth
            increments == op.core_result.increments
        IN /\ Len(spectrum) = n
           /\ K = op.core_result.reorth_steps
           /\ Len(increments) = K
           /\ K * t_reorth >= t_total
           /\ (K - 1) * t_reorth < t_total
           /\ \A k \in 1..K :
                 /\ Len(history[k]) = n
                 /\ \A i \in 1..n :
                       history[k][i] = <<Accumulated(increments, i, k), k * t_reorth>>

\* two re-orthogonalizations of a two-dimensional system over a t_total that
\* is not a multiple of t_reorth, with a direction that stretched
C16_Witness ==
    /\ SpectrumReturned
    /\ ana.n_dims = 2
    /\ Len(op.returned.history) = 2
    /\ op.call.t_total % op.call.t_reorth # 0
    /\ \E i \in 1..2 : op.returned.history[2][i][1] # 0

\* the integrator failed inside a Lyapunov computation
LyapunovIntegratorFailed ==
    /\ op.name = "lyapunov_spectrum"
    /\ op.core_calls # <<>>
    /\ op.core_result.failed_interval >= 0

\* C21: when the integrator fails during the transient or during a t_reorth
\* sub-interval, lyapunov_spectrum raises that failure and returns nothing:
\* no spectrum and no partial history leave the solver, and the
\* re-orthogonalizations performed are those of the sub-intervals before the
\* failing one, fewer than a whole computation takes.
C21_LyapunovFailureAborts ==
    LyapunovIntegratorFailed =>
        LET res == op.core_result
            K == CeilDiv(op.call.t_total, op.call.t_reorth)
        IN /\ res.raised # NoExc
           /\ op.raised = res.raised
           /\ op.returned = NoObj
           /\ res.spectrum = NoObj
           /\ res.history = NoObj
           /\ res.reorth_steps = Max(res.failed_interval - 1, 0)
           /\ res.reorth_steps < K
           /\ op.call.dynamics = "raises" =>
                  /\ res.reorth_steps = 0
                  /\ res.failed_interval = (IF op.call.t_transient > 0 THEN 0 ELSE 1)

\* a step-size underflow in the third sub-interval, after two
\* re-orthogonalizations
C21_Witness ==
    /\ LyapunovIntegratorFailed
    /\ op.raised.msg = "step size underflow"
    /\ op.core_result.failed_interval = 3
    /\ op.core_result.reorth_steps = 2

(***************************************************************************)
(* The caller's session with one Analysis on which the four computations   *)
(* are called in any order.                                                *)
(***************************************************************************)
NextFrame ==
    \/ AnalysisInit
    \/ LyapunovSpectrum
    \/ PermutationEntropy
    \/ InvariantMeasure
    \/ ToDataframe

SpecFrame == Init /\ [][NextFrame]_vars

AnalysisCalls ==
    {"lyapunov_spectrum", "permutation_entropy", "invariant_measure", "to_dataframe"}

\* C22: a call of lyapunov_spectrum, permutation_entropy, invariant_measure
\* or to_dataframe, whether it returns or raises, leaves the object's
\* trajectory, t, dt, n_points and n_dims as they were, so they stay what
\* construction made them; and the solver of lyapunov_spectrum is started
\* from the last row of the stored trajectory.
C22_AnalysisUnchanged ==
    [][(ana # NoObj /\ op'.name \in AnalysisCalls) =>
          /\ ana'.trajectory = ana.trajectory
          /\ ana'.t = ana.t
          /\ ana'.dt = ana.dt
          /\ ana'.n_points = ana.n_points
          /\ ana'.n_dims = ana.n_dims
          /\ ana'.trajectory.shape = <<ana'.n_points, ana'.n_dims>>
          /\ ana'.n_points = Len(ana'.trajectory.data)
          /\ (op'.name = "lyapunov_spectrum" /\ op'.core_calls # <<>>) =>
                 op'.core_calls[1].args[2] = ana.trajectory.data[Len(ana.trajectory.data)]
          /\ (op'.name = "to_dataframe" /\ op'.raised = NoExc) =>
                 op'.returned.data = ana.trajectory.data
      ]_vars

\* a Lyapunov computation that raised on an object of three points whose
\* first and last rows differ
C22_Witness ==
    /\ op.name = "lyapunov_spectrum"
    /\ op.raised # NoExc
    /\ ana # NoObj
    /\ ana.n_points = 3
    /\ ana.trajectory.data[1] # ana.trajectory.data[3]

RECURSIVE SumSeq(_)
SumSeq(xs) == IF xs = <<>> THEN 0 ELSE xs[1] + SumSeq(Tail(xs))

\* the sum of all cells of a grid
GridSum(h) == SumSeq([i \in DOMAIN h |-> SumSeq(h[i])])

\* invariant_measure was called with two dims that the trajectory has
MeasureCalled ==
    /\ op.name = "invariant_measure"
    /\ Len(op.call.dims) = 2
    /\ \A c \in 1..2 : -ana.n_dims <= op.call.dims[c] /\ op.call.dims[c] < ana.n_dims

\* C23: the cells of the dense grid invariant_measure returns for a
\* non-empty trajectory sum to the number of trajectory points; for a
\* trajectory without points the call does not raise and returns a grid
\* without cells and two empty edge arrays.
C23_GridSum ==
    MeasureCalled =>
        /\ op.raised = NoExc
        /\ ana.n_points >= 1 =>
               GridSum(op.returned.histogram) = ana.n_points
        /\ ana.n_points = 0 =>
               /\ \A i \in DOMAIN op.returned.histogram :
                      op.returned.histogram[i] = <<>>
               /\ op.returned.x_bins = <<>>
               /\ op.returned.y_bins = <<>>

\* four points in a grid with a cell visited three times and empty cells
C23_Witness ==
    /\ MeasureCalled
    /\ ana.n_points = 4
    /\ \E i \in DOMAIN op.returned.histogram :
          \E j \in DOMAIN op.returned.histogram[i] :
             op.returned.histogram[i][j] = 3
    /\ \E i \in DOMAIN op.returned.histogram :
          \E j \in DOMAIN op.returned.histogram[i] :
             op.returned.histogram[i][j] = 0

====
